---- MODULE Spec2Model ----
(***************************************************************************)
(* A model of the shireikan command handler (handler.go, arguments.go).    *)
(*                                                                         *)
(* Strings are sequences of one-character strings, so that prefix tests,   *)
(* slicing, case folding and the argument regular expression are computed  *)
(* character by character, as the Go code computes them.                   *)
(***************************************************************************)
EXTENDS Integers, Sequences, FiniteSets, TLC

VARIABLES
    config,        \* handler.config: the Config the handler was built with
    cmdMap,        \* handler.cmdMap: invoke -> Command
    cmdInstances,  \* handler.cmdInstances
    middlewares,   \* handler.middlewares (each entry: GetLayer() of the one)
    panicked,      \* a Go panic ended the process (line 153, or an index fault)
    attached,      \* the event kinds RegisterHandlers added a handler for
    pc,            \* position of the running messageHandler call
    event,         \* the event kind that triggered the running dispatch
    msg,           \* the discordgo.Message being dispatched
    ctx,           \* the context built by messageHandler
    usedPrefix,    \* local usedPrefix
    guildPrefix,   \* local guildPrefix (what GuildPrefixGetter returned)
    args,          \* local args
    invoke,        \* local invoke
    cmd,           \* local cmd
    layer,         \* executeMiddlewares: parameter layer
    ranged,        \* executeMiddlewares: the slice the range loop iterates
    mwIdx,         \* executeMiddlewares: loop index
    calls,         \* every call the dispatch made to a collaborator, in order
    reports,       \* every call of config.OnError of the dispatch, in order
    heap,          \* the backing arrays of the slices of strings
    list,          \* an ArgumentList value: a slice header into heap
    made,          \* the elements of list when it was constructed
    last,          \* the last call of an ArgumentList method and its result
    running,       \* concurrent messageHandler calls: goroutine -> frame
    contexts,      \* every context allocated so far (index = its address)
    objectMaps     \* every sync.Map allocated so far (index = its address)

listVars == << heap, list, made, last >>

runVars == << running, contexts, objectMaps >>

sideVars == << listVars, runVars >>

vars == << config, cmdMap, cmdInstances, middlewares, panicked, attached, pc,
           event, msg, ctx, usedPrefix, guildPrefix, args, invoke, cmd, layer,
           ranged, mwIdx, calls, reports, sideVars >>

----------------------------------------------------------------------------
(* Bounds of the model.                                                    *)

MaxMsgLen == 5        \* longest message text of the parsing specification
MaxGoroutines == 2    \* messageHandler calls running at the same time
MaxContexts == 2      \* dispatches of the concurrent specification
MaxListLen == 3       \* longest ArgumentList of the list specification
MaxCommands == 2      \* RegisterCommand calls per run
MaxMiddlewares == 2   \* RegisterMiddleware calls per run

----------------------------------------------------------------------------
(* Strings.                                                                *)

None == "none"

Str(n, alphabet) == UNION { [1..k -> alphabet] : k \in 0..n }

HasPrefix(s, p) == Len(p) <= Len(s) /\ SubSeq(s, 1, Len(p)) = p

LowerChar(c) == IF c = "A" THEN "a" ELSE IF c = "B" THEN "b" ELSE c

ToLower(s) == [i \in DOMAIN s |-> LowerChar(s[i])]

\* \s and " of argsRx
IsSpace(c) == c = " "
IsQuote(c) == c = "\""
IsPlain(c) == ~IsSpace(c) /\ ~IsQuote(c)

----------------------------------------------------------------------------
(* argsRx = (?:[^\s"]+|"[^"]*")+  and FindAllString.                       *)
(* Positions are 1-based; an "end" is the position after the last matched  *)
(* character, and 0 means no match.                                        *)

\* [^\s"]+ at i, greedy: the end of the maximal run of plain characters.
RECURSIVE PlainRunEnd(_, _)
PlainRunEnd(s, i) ==
    IF i <= Len(s) /\ IsPlain(s[i]) THEN PlainRunEnd(s, i + 1) ELSE i

\* "[^"]*" at i: the opening quote at i, up to and including the next quote.
QuotedEnd(s, i) ==
    IF i <= Len(s) /\ IsQuote(s[i]) /\ \E j \in (i + 1)..Len(s) : IsQuote(s[j])
    THEN (CHOOSE j \in (i + 1)..Len(s) :
              IsQuote(s[j]) /\ \A k \in (i + 1)..(j - 1) : ~IsQuote(s[k])) + 1
    ELSE 0

\* One iteration of the group: the first alternative that matches at i.
UnitEnd(s, i) ==
    IF i <= Len(s) /\ IsPlain(s[i]) THEN PlainRunEnd(s, i) ELSE QuotedEnd(s, i)

\* (?: ... )+ at i, greedy: iterate the group while it matches.
RECURSIVE MatchEnd(_, _)
MatchEnd(s, i) ==
    LET e == UnitEnd(s, i) IN IF e = 0 THEN i ELSE MatchEnd(s, e)

\* FindAllString(s, -1): the successive leftmost non-overlapping matches.
RECURSIVE FindAllFrom(_, _)
FindAllFrom(s, i) ==
    IF i > Len(s) THEN << >>
    ELSE IF UnitEnd(s, i) = 0 THEN FindAllFrom(s, i + 1)
    ELSE LET e == MatchEnd(s, i)
         IN  << SubSeq(s, i, e - 1) >> \o FindAllFrom(s, e)

FindAllString(s) == FindAllFrom(s, 1)

\* A faulty variant of StripQuotes: only a leading and a trailing quote are
\* removed.
TrimQuotes(k) ==
    LET b == IF Len(k) > 0 /\ IsQuote(k[1]) THEN 2 ELSE 1
        e == IF Len(k) >= b /\ IsQuote(k[Len(k)]) THEN Len(k) - 1 ELSE Len(k)
    IN  SubSeq(k, b, e)

\* strings.Replace(k, "\"", "", -1)
NotQuote(c) == ~IsQuote(c)
StripQuotes(k) == SelectSeq(k, NotQuote)

\* handler.go 268-273: the matches, each with its quote characters removed.
Tokenize(s) ==
    LET found == FindAllString(s)
    IN  [i \in DOMAIN found |-> StripQuotes(found[i])]

----------------------------------------------------------------------------
(* Prefix resolution, handler.go 229-245.                                  *)

\* What GuildPrefixGetter returned: a prefix and whether it returned an error.
GuildResult(prefix, err) == [prefix |-> prefix, err |-> err]

\* A faulty variant of ResolvePrefix: the guild prefix is tried first.
ResolvePrefixGuildFirst(content, general, g) ==
    IF g.err
    THEN [called |-> TRUE, failed |-> TRUE, used |-> << >>]
    ELSE IF g.prefix # << >> /\ HasPrefix(content, g.prefix)
    THEN [called |-> TRUE, failed |-> FALSE, used |-> g.prefix]
    ELSE IF HasPrefix(content, general)
    THEN [called |-> TRUE, failed |-> FALSE, used |-> general]
    ELSE [called |-> TRUE, failed |-> FALSE, used |-> << >>]

\* g is what GuildPrefixGetter returns when it is called.  The result says
\* whether the getter was called, whether its error is reported, and the
\* value of usedPrefix ("" = << >>) when line 243 is reached.
ResolvePrefix(content, general, g) ==
    IF HasPrefix(content, general)
    THEN [called |-> FALSE, failed |-> FALSE, used |-> general]
    ELSE IF g.err
    THEN [called |-> TRUE, failed |-> TRUE, used |-> << >>]
    ELSE IF g.prefix # << >> /\ HasPrefix(content, g.prefix)
    THEN [called |-> TRUE, failed |-> FALSE, used |-> g.prefix]
    ELSE [called |-> TRUE, failed |-> FALSE, used |-> << >>]

----------------------------------------------------------------------------
(* Invocation extraction, handler.go 275-287.  fault: the Go runtime       *)
(* panics on an index or slice bound out of range.                         *)

Drop(s, n) == SubSeq(s, n + 1, Len(s))

ExtractInvoke(spaceAfterPrefix, prefix, toks) ==
    IF spaceAfterPrefix
    THEN IF Len(toks) > 1
         THEN [fault |-> FALSE, invoke |-> toks[2], args |-> Drop(toks, 2)]
         ELSE IF Len(toks) < 1               \* args[1:] of an empty slice
              THEN [fault |-> TRUE, invoke |-> << >>, args |-> << >>]
              ELSE [fault |-> FALSE, invoke |-> << >>, args |-> Drop(toks, 1)]
    ELSE IF Len(toks) < 1                    \* args[0] of an empty slice
         THEN [fault |-> TRUE, invoke |-> << >>, args |-> << >>]
         ELSE IF Len(toks[1]) < Len(prefix)  \* args[0][len(usedPrefix):]
              THEN [fault |-> TRUE, invoke |-> << >>, args |-> << >>]
              ELSE [fault |-> FALSE, invoke |-> Drop(toks[1], Len(prefix)),
                    args |-> Drop(toks, 1)]

----------------------------------------------------------------------------
(* The command registry, handler.go 146-157 and 187-194.                   *)

EmptyMap == [k \in {} |-> None]

MapPut(m, k, v) == [x \in DOMAIN m \cup {k} |-> IF x = k THEN v ELSE m[x]]

\* What the tested applications register: a command is its GetInvokes()
\* list and its IsExecutableInDMChannels() flag.
Commands ==
    { [id |-> "c1", invokes |-> << <<"a">>, <<"b">> >>, dm |-> TRUE],
      [id |-> "c2", invokes |-> << <<"c">>, <<"B">>, <<"d">> >>, dm |-> FALSE] }

Fold(toLower, name) == IF toLower THEN ToLower(name) ELSE name

\* A faulty variant of RegisterLoop: an invoke already present is replaced.
RECURSIVE RegisterLoopOverwrite(_, _, _, _)
RegisterLoopOverwrite(m, toLower, c, i) ==
    IF i > Len(c.invokes) THEN [map |-> m, panic |-> FALSE]
    ELSE RegisterLoopOverwrite(MapPut(m, Fold(toLower, c.invokes[i]), c.id),
                               toLower, c, i + 1)

\* The loop of RegisterCommand over cmd.GetInvokes(), from the i-th invoke on:
\* the map when the loop ends, and whether it ended in the panic of line 153.
RECURSIVE RegisterLoop(_, _, _, _)
RegisterLoop(m, toLower, c, i) ==
    IF i > Len(c.invokes) THEN [map |-> m, panic |-> FALSE]
    ELSE LET inv == Fold(toLower, c.invokes[i])
         IN  IF inv \in DOMAIN m
             THEN [map |-> m, panic |-> TRUE]
             ELSE RegisterLoop(MapPut(m, inv, c.id), toLower, c, i + 1)

\* A faulty variant of GetCommand: the lookup without the case folding.
GetCommandUnfolded(m, toLower, name) ==
    IF name \in DOMAIN m THEN m[name] ELSE None

\* GetCommand: the command's id, or None for ok = false.
GetCommand(m, toLower, name) ==
    LET inv == Fold(toLower, name)
    IN  IF inv \in DOMAIN m THEN m[inv] ELSE None

CommandOf(id) == CHOOSE c \in Commands : c.id = id

----------------------------------------------------------------------------
(* Configuration, messages and the collaborators' answers.                 *)

AllConfigs(prefixes) ==
    [ GeneralPrefix : prefixes,
      SpaceAfterPrefix : BOOLEAN, InvokeToLower : BOOLEAN, AllowDM : BOOLEAN,
      AllowBots : BOOLEAN, ExecuteOnEdit : BOOLEAN,
      DeleteMessageAfter : BOOLEAN ]

\* The configurations of the life-cycle specification: global prefix "!",
\* and the six options in eight combinations in which every two options
\* take all four pairs of values.
Configs ==
    { c \in AllConfigs({ <<"!">> }) :
        /\ c.SpaceAfterPrefix = (c.AllowDM # c.DeleteMessageAfter)
        /\ c.AllowBots = (c.AllowDM # c.InvokeToLower)
        /\ c.ExecuteOnEdit = (c.DeleteMessageAfter # c.InvokeToLower) }

\* msg.Author is nil, the session's own user, a bot account or a user.
Authors == { "nil", "self", "bot", "user" }

Message(content, author) == [content |-> content, author |-> author]

Contents ==
    { <<"!">>, <<"!", "a">>, <<"!", "A", " ", "b">>, <<"!", " ", "a">>,
      <<"?", "c">>, <<"a", "a">> }

Messages ==
    { Message(c, "user") : c \in Contents }
        \cup { Message(<<"!", "a">>, a) : a \in Authors }

GuildResults ==
    { GuildResult(<< >>, FALSE), GuildResult(<<"?">>, FALSE),
      GuildResult(<< >>, TRUE) }

ChannelTypes == { "GuildText", "DM", "GroupDM" }

\* How an object is looked up: the state cache has it, the API call made
\* after a cache miss returns it, or both fail.  The call log holds one
\* entry for the lookup, failed or not.
Lookups == { "cached", "fetched", "failed" }

\* MiddlewareLayer bit flags.
LayerBeforeCommand == 1
LayerAfterCommand == 2
LayerMasks == 0..3

\* mw.GetLayer()&layer != 0
Subscribed(mask, l) == (mask \div l) % 2 # 0

ObjectMapKeyHandler == "shireikan.handler"

\* One call the dispatch made: the operation and whether its answer makes
\* the step fail (an error, or ok = false of GetCommand, or false of
\* IsExecutableInDMChannels); for Middleware.Handle also the index of the
\* middleware, the layer passed and the continue flag returned.
Call(op, idx, l, next, err) ==
    [op |-> op, idx |-> idx, layer |-> l, next |-> next, err |-> err]

Plain(op, err) == Call(op, 0, 0, TRUE, err)

NoCtx ==
    [isEdit |-> FALSE, isDM |-> FALSE, channel |-> None, guild |-> None,
     args |-> << >>, objectMap |-> {}]

----------------------------------------------------------------------------
(* ArgumentList, arguments.go 43-86.  An ArgumentList is a Go slice of     *)
(* strings: a header (array, offset, length, capacity) over a backing      *)
(* array of the heap.  Two headers over one array share its elements.      *)

Slice(array, off, len, cap) ==
    [array |-> array, off |-> off, len |-> len, cap |-> cap]

\* The elements read through the header s.
Elements(h, s) == [k \in 1 .. s.len |-> h[s.array][s.off + k]]

\* Go's s[lo:]: the header moves, the array stays.
SliceFrom(s, lo) == Slice(s.array, s.off + lo, s.len - lo, s.cap - lo)

\* Go's s[:hi].
SliceTo(s, hi) == Slice(s.array, s.off, hi, s.cap)

\* Go's append(s, xs...): within the capacity of s the elements xs are
\* written into the array of s behind its length; beyond it a new array
\* is allocated and s is left alone.
GoAppend(h, s, xs) ==
    IF s.len + Len(xs) <= s.cap
    THEN [heap |-> [h EXCEPT ![s.array] =
                       [k \in 1 .. Len(@) |->
                           IF /\ k > s.off + s.len
                              /\ k <= s.off + s.len + Len(xs)
                           THEN xs[k - s.off - s.len] ELSE @[k]]],
          out |-> Slice(s.array, s.off, s.len + Len(xs), s.cap)]
    ELSE [heap |-> Append(h, Elements(h, s) \o xs),
          out |-> Slice(Len(h) + 1, 0, s.len + Len(xs), s.len + Len(xs))]

\* A faulty variant of Splice: one element more is cut out (arr[i+r+1:]).
SpliceSkipsOne(h, arr, i, r) ==
    LET l == arr.len
    IN  IF i >= l THEN [heap |-> h, out |-> arr]
        ELSE IF i + r >= l THEN [heap |-> h, out |-> SliceTo(arr, i)]
        ELSE GoAppend(h, SliceTo(arr, i),
                      Elements(h, SliceFrom(arr, i + r + 1)))

\* Lines 76-86, for i >= 0 and r >= 0.
Splice(h, arr, i, r) ==
    LET l == arr.len
    IN  IF i >= l THEN [heap |-> h, out |-> arr]
        ELSE IF i + r >= l THEN [heap |-> h, out |-> SliceTo(arr, i)]
        ELSE GoAppend(h, SliceTo(arr, i), Elements(h, SliceFrom(arr, i + r)))

\* Lines 48-54: the empty Argument outside the list.
Get(h, arr, i) ==
    IF i < 0 \/ i >= arr.len THEN "" ELSE Elements(h, arr)[i + 1]

\* Lines 58-66: the loop returns at the first equal element.
RECURSIVE IndexFrom(_, _, _)
IndexFrom(vs, v, i) ==
    IF i >= Len(vs) THEN -1
    ELSE IF vs[i + 1] = v THEN i
    ELSE IndexFrom(vs, v, i + 1)

IndexOf(h, arr, v) == IndexFrom(Elements(h, arr), v, 0)

\* Lines 70-72.
Contains(h, arr, v) == IndexOf(h, arr, v) > -1

\* No ArgumentList method was called yet.
NoCall == [op |-> "none", i |-> 0, r |-> 0, v |-> "",
           before |-> << >>, out |-> None, slice |-> None]

\* The specifications of the handler hold no list of their own.
NoLists ==
    /\ heap = << >> /\ list = None /\ made = << >> /\ last = NoCall

----------------------------------------------------------------------------
(* Concurrent calls of messageHandler: discordgo runs every event handler  *)
(* in a goroutine of its own.                                              *)

\* sync.Map: Store and Load.
Store(entries, key, val) ==
    [k \in DOMAIN entries \cup { key } |->
        IF k = key THEN val ELSE entries[k]]

\* The values of the maps: who stored them (0: messageHandler itself, the
\* back-reference to the handler; n > 0: a middleware or the command of
\* the dispatch that owns context n).
Value(by) == [by |-> by]

\* nil: what Load returns for a key that is not stored.
NoValue == Value(-1)

Load(entries, key) ==
    IF key \in DOMAIN entries THEN entries[key] ELSE NoValue

\* Lines 220-225: ctx := &context{...}, a new object, objectMap nil (0).
NewContext(cs) ==
    [contexts |-> Append(cs, [objectMap |-> 0]), ref |-> Len(cs) + 1]

\* A faulty variant of NewObjectMap: the context is given the handler's
\* own map (ctx.objectMap = h.objectMap).
NewObjectMapShared(maps) == [objectMaps |-> maps, ref |-> 1]

\* Line 302: &sync.Map{}, a new and empty map.
NewObjectMap(maps) ==
    [objectMaps |-> Append(maps, << >>), ref |-> Len(maps) + 1]

\* A goroutine that runs no messageHandler call.
NoFrame == [pc |-> "idle", ctx |-> 0, got |-> NoValue]

\* The specifications of one dispatch at a time run no second goroutine.
NoRuns ==
    /\ running = << >> /\ contexts = << >> /\ objectMaps = << >>

----------------------------------------------------------------------------
(* NewHandler, handler.go 121-144 (without the default help command).      *)

Idle ==
    /\ pc = "idle" /\ event = None /\ msg = Message(<< >>, "nil")
    /\ ctx = NoCtx /\ usedPrefix = << >> /\ guildPrefix = << >>
    /\ args = << >> /\ invoke = << >>
    /\ cmd = None /\ layer = 0 /\ ranged = << >> /\ mwIdx = 0
    /\ calls = << >> /\ reports = << >>

Init ==
    /\ config \in Configs
    /\ cmdMap = EmptyMap
    /\ cmdInstances = << >>
    /\ middlewares = << >>
    /\ panicked = FALSE
    /\ attached = {}
    /\ Idle
    /\ NoLists
    /\ NoRuns

dispatchVars ==
    << pc, event, msg, ctx, usedPrefix, guildPrefix, args, invoke, cmd,
       layer, ranged, mwIdx, calls, reports >>

----------------------------------------------------------------------------
(* Registration, handler.go 146-173.                                       *)

RegisterCommand(c) ==
    /\ ~panicked
    /\ Len(cmdInstances) < MaxCommands
    /\ LET r == RegisterLoop(cmdMap, config.InvokeToLower, c, 1)
       IN  /\ cmdInstances' = Append(cmdInstances, c.id)
           /\ cmdMap' = r.map
           /\ panicked' = r.panic
    /\ UNCHANGED << sideVars, config, middlewares, attached, dispatchVars >>

RegisterMiddleware(mask) ==
    /\ ~panicked
    /\ Len(middlewares) < MaxMiddlewares
    /\ middlewares' = Append(middlewares, mask)
    /\ UNCHANGED << sideVars, config, cmdMap, cmdInstances, panicked, attached,
                    dispatchVars >>

RegisterHandlers ==
    /\ ~panicked
    /\ attached = {}
    /\ attached' = IF config.ExecuteOnEdit
                   THEN { "MessageCreate", "MessageUpdate" }
                   ELSE { "MessageCreate" }
    /\ UNCHANGED << sideVars,
                    config, cmdMap, cmdInstances, middlewares, panicked,
                    dispatchVars >>

----------------------------------------------------------------------------
(* messageHandler, handler.go 207-324, one action per step.                *)

handlerVars == << config, cmdMap, cmdInstances, middlewares, attached >>

\* The isEdit argument the closures of RegisterHandlers pass (165, 170).
IsEditArg(kind) == FALSE

\* A faulty variant of Abort: the return without the call of OnError.
AbortUnreported(kind) ==
    /\ reports' = reports
    /\ pc' = "done"

\* h.config.OnError(ctx, kind, err); return
Abort(kind) ==
    /\ reports' = Append(reports, kind)
    /\ pc' = "done"

\* return
Stop ==
    /\ reports' = reports
    /\ pc' = "done"

\* The handler added for the event is called: lines 208-225.
MessageEvent(kind, m) ==
    /\ ~panicked
    /\ pc = "idle"
    /\ kind \in attached
    /\ event' = kind
    /\ msg' = m
    /\ IF \/ m.author \in { "nil", "self" }
          \/ Len(m.content) < 2
          \/ ~config.AllowBots /\ m.author = "bot"
       THEN ctx' = NoCtx /\ pc' = "done"
       ELSE ctx' = [NoCtx EXCEPT !.isEdit = IsEditArg(kind)] /\ pc' = "prefix"
    /\ UNCHANGED << sideVars,
                    handlerVars, panicked, usedPrefix, guildPrefix, args,
                    invoke, cmd, layer, ranged, mwIdx, calls, reports >>

\* Lines 229-245.
PrefixStep(g) ==
    /\ ~panicked
    /\ pc = "prefix"
    /\ LET r == ResolvePrefix(msg.content, config.GeneralPrefix, g)
       IN  /\ calls' = IF r.called
                       THEN Append(calls, Plain("GuildPrefixGetter", g.err))
                       ELSE calls
           /\ usedPrefix' = r.used
           /\ guildPrefix' = IF r.called /\ ~r.failed THEN g.prefix ELSE << >>
           /\ IF r.failed THEN Abort("ErrTypGuildPrefixGetter")
              ELSE IF r.used = << >> THEN Stop
              ELSE reports' = reports /\ pc' = "channel"
    /\ UNCHANGED << sideVars,
                    handlerVars, panicked, event, msg, ctx, args, invoke, cmd,
                    layer, ranged, mwIdx >>

\* A faulty variant of StopsForDM: the test of AllowDM is left out.
StopsForDMNever(allowDM, isDM) == FALSE

\* Line 255: a direct message while direct messages are disabled.
StopsForDM(allowDM, isDM) == ~allowDM /\ isDM

\* A faulty variant of AfterChannel: the guild is never resolved.
AfterChannelSkipsGuild(isDM) == "parse"

\* Line 259: the guild is resolved for the channels that are no DM.
AfterChannel(isDM) == IF isDM THEN "parse" ELSE "guild"

\* Lines 247-257: the channel from the state cache or the API, then the
\* direct-message check.
ChannelStep(found, type) ==
    /\ ~panicked
    /\ pc = "channel"
    /\ calls' = Append(calls, Plain("Channel", found = "failed"))
    /\ IF found = "failed"
       THEN ctx' = ctx /\ Abort("ErrTypGetChannel")
       ELSE LET dm == type \in { "DM", "GroupDM" }
            IN  /\ ctx' = [ctx EXCEPT !.channel = "channel", !.isDM = dm]
                /\ IF StopsForDM(config.AllowDM, dm) THEN Stop
                   ELSE reports' = reports
                        /\ pc' = AfterChannel(dm)
    /\ UNCHANGED << sideVars, handlerVars, panicked, event, msg, usedPrefix,
                    guildPrefix, args, invoke, cmd, layer, ranged, mwIdx >>

\* Lines 259-266.
GuildStep(found) ==
    /\ ~panicked
    /\ pc = "guild"
    /\ calls' = Append(calls, Plain("Guild", found = "failed"))
    /\ IF found = "failed"
       THEN ctx' = ctx /\ Abort("ErrTypGetGuild")
       ELSE /\ ctx' = [ctx EXCEPT !.guild = "guild"]
            /\ reports' = reports
            /\ pc' = "parse"
    /\ UNCHANGED << sideVars, handlerVars, panicked, event, msg, usedPrefix,
                    guildPrefix, args, invoke, cmd, layer, ranged, mwIdx >>

\* Lines 268-289.
ParseStep ==
    /\ ~panicked
    /\ pc = "parse"
    /\ LET x == ExtractInvoke(config.SpaceAfterPrefix, usedPrefix,
                              Tokenize(msg.content))
       IN  /\ panicked' = x.fault
           /\ invoke' = x.invoke
           /\ args' = x.args
           /\ ctx' = IF x.fault THEN ctx ELSE [ctx EXCEPT !.args = x.args]
           /\ pc' = IF x.fault THEN "fault" ELSE "lookup"
    /\ UNCHANGED << sideVars,
                    handlerVars, event, msg, usedPrefix, guildPrefix, cmd,
                    layer, ranged, mwIdx, calls, reports >>

\* Lines 291-305: the lookup, the DM check, the object map, and the entry
\* into executeMiddlewares for the layer before the command.
LookupStep ==
    /\ ~panicked
    /\ pc = "lookup"
    /\ LET c == GetCommand(cmdMap, config.InvokeToLower, invoke)
           inDM == c # None /\ ctx.isDM
           refused == inDM /\ ~CommandOf(c).dm
       IN  /\ cmd' = c
           /\ calls' = calls \o << Plain("GetCommand", c = None) >> \o
                  (IF inDM
                   THEN << Plain("IsExecutableInDMChannels", refused) >>
                   ELSE << >>)
           /\ IF c = None
              THEN /\ Abort("ErrTypCommandNotFound")
                   /\ UNCHANGED << ctx, layer, ranged, mwIdx >>
              ELSE IF refused
              THEN /\ Abort("ErrTypNotExecutableInDM")
                   /\ UNCHANGED << ctx, layer, ranged, mwIdx >>
              ELSE /\ ctx' = [ctx EXCEPT !.objectMap = { ObjectMapKeyHandler }]
                   /\ layer' = LayerBeforeCommand
                   /\ ranged' = middlewares
                   /\ mwIdx' = 1
                   /\ reports' = reports
                   /\ pc' = "middlewares"
    /\ UNCHANGED << sideVars, handlerVars, panicked, event, msg, usedPrefix,
                    guildPrefix, args, invoke >>

----------------------------------------------------------------------------
(* executeMiddlewares, handler.go 326-343, and the rest of messageHandler. *)

\* A faulty variant of NextSubscribed: the loop without the layer test.
NextSubscribedAnyLayer(r, i, l) == IF i <= Len(r) THEN i ELSE 0

\* The first index from i on whose middleware is subscribed to layer l
\* (the loop skips the others, 328-330); 0 when the loop runs out.
NextSubscribed(r, i, l) ==
    IF \E j \in i..Len(r) : Subscribed(r[j], l)
    THEN CHOOSE j \in i..Len(r) :
             Subscribed(r[j], l) /\ \A k \in i..(j - 1) : ~Subscribed(r[k], l)
    ELSE 0

\* Faulty variants of HandleOutcome: the continue flag is not tested; the
\* continue flag is tested before the error.
HandleOutcomeIgnoresNext(next, err) == IF err THEN "report" ELSE "continue"

HandleOutcomeNextFirst(next, err) ==
    IF ~next THEN "stop" ELSE IF err THEN "report" ELSE "continue"

\* Lines 333-339: what the loop does with the values Handle returned.
HandleOutcome(next, err) ==
    IF err THEN "report" ELSE IF ~next THEN "stop" ELSE "continue"

\* Lines 327-340: the next subscribed middleware is called.
MiddlewareStep(next, err) ==
    /\ ~panicked
    /\ pc = "middlewares"
    /\ LET j == NextSubscribed(ranged, mwIdx, layer)
           o == HandleOutcome(next, err)
       IN  /\ j # 0
           /\ calls' = Append(calls, Call("Handle", j, layer, next, err))
           /\ mwIdx' = j + 1
           /\ IF o = "report" THEN Abort("ErrTypMiddleware")
              ELSE IF o = "stop" THEN Stop
              ELSE reports' = reports /\ pc' = "middlewares"
    /\ UNCHANGED << sideVars,
                    handlerVars, panicked, event, msg, ctx, usedPrefix,
                    guildPrefix, args, invoke, cmd, layer, ranged >>

\* Line 342, and the caller's test of the result (305-307, 314-316).
MiddlewaresReturn ==
    /\ ~panicked
    /\ pc = "middlewares"
    /\ NextSubscribed(ranged, mwIdx, layer) = 0
    /\ pc' = IF layer = LayerBeforeCommand THEN "exec" ELSE "delete"
    /\ UNCHANGED << sideVars,
                    handlerVars, panicked, event, msg, ctx, usedPrefix,
                    guildPrefix, args, invoke, cmd, layer, ranged, mwIdx,
                    calls, reports >>

\* A faulty variant of ExecOutcome: the error of Exec is not tested.
ExecOutcomeIgnoresError(err) == "continue"

\* Lines 309-312: what messageHandler does with the error Exec returned.
ExecOutcome(err) == IF err THEN "report" ELSE "continue"

\* Lines 309-314.
ExecStep(err) ==
    /\ ~panicked
    /\ pc = "exec"
    /\ calls' = Append(calls, Plain("Exec", err))
    /\ IF ExecOutcome(err) = "report"
       THEN Abort("ErrTypCommandExec") /\ UNCHANGED << layer, ranged, mwIdx >>
       ELSE /\ layer' = LayerAfterCommand
            /\ ranged' = middlewares
            /\ mwIdx' = 1
            /\ reports' = reports
            /\ pc' = "middlewares"
    /\ UNCHANGED << sideVars,
                    handlerVars, panicked, event, msg, ctx, usedPrefix,
                    guildPrefix, args, invoke, cmd >>

\* A faulty variant of DeleteEnabled: the option is not tested.
DeleteEnabledAlways(cfg) == TRUE

\* Line 318: the test that guards the deletion.
DeleteEnabled(cfg) == cfg.DeleteMessageAfter

\* Lines 318-324.
DeleteStep(err) ==
    /\ ~panicked
    /\ pc = "delete"
    /\ IF DeleteEnabled(config)
       THEN /\ calls' = Append(calls, Plain("ChannelMessageDelete", err))
            /\ IF err THEN Abort("ErrTypDeleteCommandMessage") ELSE Stop
       ELSE calls' = calls /\ Stop
    /\ UNCHANGED << sideVars,
                    handlerVars, panicked, event, msg, ctx, usedPrefix,
                    guildPrefix, args, invoke, cmd, layer, ranged, mwIdx >>

\* messageHandler has returned: its locals and the context are gone.
HandlerReturn ==
    /\ ~panicked
    /\ pc = "done"
    /\ pc' = "idle" /\ event' = None /\ msg' = Message(<< >>, "nil")
    /\ ctx' = NoCtx /\ usedPrefix' = << >> /\ guildPrefix' = << >>
    /\ args' = << >> /\ invoke' = << >> /\ cmd' = None
    /\ layer' = 0 /\ ranged' = << >> /\ mwIdx' = 0
    /\ calls' = << >> /\ reports' = << >>
    /\ UNCHANGED << sideVars, handlerVars, panicked >>

----------------------------------------------------------------------------
(* The handler's life: registration by the application's setup code, then  *)
(* RegisterHandlers, then one dispatch after another.  The registration    *)
(* methods themselves test nothing: that they are called before            *)
(* RegisterHandlers only is the discipline of the caller, stated in Setup. *)

Setup ==
    /\ attached = {}
    /\ \/ \E c \in Commands : RegisterCommand(c)
       \/ \E mask \in LayerMasks : RegisterMiddleware(mask)
       \/ RegisterHandlers

Dispatch ==
    \/ \E kind \in { "MessageCreate", "MessageUpdate" }, m \in Messages :
           MessageEvent(kind, m)
    \/ \E g \in GuildResults : PrefixStep(g)
    \/ \E found \in Lookups, type \in ChannelTypes : ChannelStep(found, type)
    \/ \E found \in Lookups : GuildStep(found)
    \/ ParseStep
    \/ LookupStep
    \/ \E next \in BOOLEAN, err \in BOOLEAN : MiddlewareStep(next, err)
    \/ MiddlewaresReturn
    \/ \E err \in BOOLEAN : ExecStep(err)
    \/ \E err \in BOOLEAN : DeleteStep(err)
    \/ HandlerReturn

Next == Setup \/ Dispatch

Spec == Init /\ [][Next]_vars

----------------------------------------------------------------------------
(* The handler as the code alone constrains it: RegisterCommand and        *)
(* RegisterMiddleware are exported methods that test no phase and take no  *)
(* lock, so an application may call them at any time, also between two     *)
(* steps of a running messageHandler call.                                 *)

NextOpen ==
    \/ \E c \in Commands : RegisterCommand(c)
    \/ \E mask \in LayerMasks : RegisterMiddleware(mask)
    \/ RegisterHandlers
    \/ Dispatch

SpecOpen == Init /\ [][NextOpen]_vars

----------------------------------------------------------------------------
(* The parsing specification: prefix resolution, tokenization, invocation  *)
(* extraction and the registry lookup of messageHandler, applied to every  *)
(* message text of up to MaxMsgLen characters that passes the length test  *)
(* of line 212, under every prefix of ParsePrefixes.                       *)

ParseAlphabet == { "!", "a", " ", "\"" }

ParsePrefixes ==
    { << >>, <<"!">>, <<"a">>, <<" ">>, <<"\"">>, <<"!", "\"">>, <<"!", "a">> }

ParseGuildResults ==
    { GuildResult(p, FALSE) : p \in ParsePrefixes }
        \cup { GuildResult(<< >>, TRUE) }

ParseConfigs ==
    { c \in AllConfigs(ParsePrefixes) :
        /\ ~c.InvokeToLower /\ ~c.AllowDM /\ ~c.AllowBots
        /\ ~c.ExecuteOnEdit /\ ~c.DeleteMessageAfter }

\* A command that answers to the empty invocation and to "a".
ParseCommand ==
    [id |-> "c0", invokes |-> << << >>, <<"a">> >>, dm |-> TRUE]

InitParse ==
    /\ config \in ParseConfigs
    /\ cmdMap =
           RegisterLoop(EmptyMap, config.InvokeToLower, ParseCommand, 1).map
    /\ cmdInstances = << ParseCommand.id >>
    /\ middlewares = << >>
    /\ panicked = FALSE
    /\ attached = { "MessageCreate" }
    /\ pc = "parse:prefix"
    /\ event = "MessageCreate"
    /\ msg \in { Message(c, "user") :
                   c \in { t \in Str(MaxMsgLen, ParseAlphabet) : Len(t) >= 2 } }
    /\ ctx = NoCtx /\ usedPrefix = << >> /\ guildPrefix = << >>
    /\ args = << >> /\ invoke = << >>
    /\ cmd = None /\ layer = 0 /\ ranged = << >> /\ mwIdx = 0
    /\ calls = << >> /\ reports = << >>
    /\ NoLists
    /\ NoRuns

parseFrame ==
    << sideVars, handlerVars, event, msg, ctx, layer, ranged, mwIdx >>

\* Lines 229-245.
ParsePrefix(g) ==
    /\ pc = "parse:prefix"
    /\ LET r == ResolvePrefix(msg.content, config.GeneralPrefix, g)
       IN  /\ calls' = IF r.called
                       THEN Append(calls, Plain("GuildPrefixGetter", g.err))
                       ELSE calls
           /\ usedPrefix' = r.used
           /\ reports' = IF r.failed
                         THEN Append(reports, "ErrTypGuildPrefixGetter")
                         ELSE reports
           /\ pc' = IF r.failed \/ r.used = << >>
                    THEN "parse:done" ELSE "parse:tokenize"
           /\ guildPrefix' = IF r.called /\ ~r.failed THEN g.prefix ELSE << >>
    /\ UNCHANGED << parseFrame, panicked, args, invoke, cmd >>

\* Lines 268-273.
ParseTokenize ==
    /\ pc = "parse:tokenize"
    /\ args' = Tokenize(msg.content)
    /\ pc' = "parse:extract"
    /\ UNCHANGED << parseFrame, panicked, usedPrefix, guildPrefix, invoke,
                    cmd, calls, reports >>

\* Lines 275-289.
ParseExtract ==
    /\ pc = "parse:extract"
    /\ LET x == ExtractInvoke(config.SpaceAfterPrefix, usedPrefix, args)
       IN  /\ panicked' = x.fault
           /\ invoke' = x.invoke
           /\ args' = IF x.fault THEN args ELSE x.args
           /\ pc' = IF x.fault THEN "parse:fault" ELSE "parse:lookup"
    /\ UNCHANGED << parseFrame, usedPrefix, guildPrefix, cmd, calls,
                    reports >>

\* Lines 291-295.
ParseLookup ==
    /\ pc = "parse:lookup"
    /\ cmd' = GetCommand(cmdMap, config.InvokeToLower, invoke)
    /\ calls' = Append(calls, Plain("GetCommand", cmd' = None))
    /\ reports' = IF cmd' = None
                  THEN Append(reports, "ErrTypCommandNotFound") ELSE reports
    /\ pc' = "parse:done"
    /\ UNCHANGED << parseFrame, panicked, usedPrefix, guildPrefix, args,
                    invoke >>

NextParse ==
    \/ \E g \in ParseGuildResults : ParsePrefix(g)
    \/ ParseTokenize
    \/ ParseExtract
    \/ ParseLookup

SpecParse == InitParse /\ [][NextParse]_vars

----------------------------------------------------------------------------
(* The list specification: an ArgumentList of up to MaxListLen elements is *)
(* constructed and its methods are called on it, in any order and with any *)
(* argument, as a command that holds ctx.GetArgs() may call them.          *)

ListTokens == { "a", "b", "c" }

\* The positions and ranges the methods are called with.
ListIndexes == 0 .. MaxListLen + 1

\* No handler takes part: the list is all there is.
InitArgs ==
    /\ config = None
    /\ cmdMap = EmptyMap
    /\ cmdInstances = << >>
    /\ middlewares = << >>
    /\ panicked = FALSE
    /\ attached = {}
    /\ Idle
    /\ NoRuns
    /\ made \in { t \in Str(MaxListLen, ListTokens) : TRUE }
    /\ heap = << made >>
    /\ list = Slice(1, 0, Len(made), Len(made))
    /\ last = NoCall

argsFrame ==
    << config, cmdMap, cmdInstances, middlewares, panicked, attached,
       dispatchVars, runVars, list, made >>

\* arr.Splice(i, r), lines 76-86.
CallSplice(i, r) ==
    /\ LET x == Splice(heap, list, i, r)
       IN  /\ heap' = x.heap
           /\ last' = [op |-> "Splice", i |-> i, r |-> r, v |-> "",
                       before |-> Elements(heap, list),
                       out |-> Elements(x.heap, x.out), slice |-> x.out]
    /\ UNCHANGED argsFrame

\* arr.Get(i), lines 48-54.
CallGet(i) ==
    /\ last' = [op |-> "Get", i |-> i, r |-> 0, v |-> "",
                before |-> Elements(heap, list),
                out |-> Get(heap, list, i), slice |-> None]
    /\ UNCHANGED << argsFrame, heap >>

\* arr.IndexOf(v), lines 58-66.
CallIndexOf(v) ==
    /\ last' = [op |-> "IndexOf", i |-> 0, r |-> 0, v |-> v,
                before |-> Elements(heap, list),
                out |-> IndexOf(heap, list, v), slice |-> None]
    /\ UNCHANGED << argsFrame, heap >>

\* arr.Contains(v), lines 70-72.
CallContains(v) ==
    /\ last' = [op |-> "Contains", i |-> 0, r |-> 0, v |-> v,
                before |-> Elements(heap, list),
                out |-> Contains(heap, list, v), slice |-> None]
    /\ UNCHANGED << argsFrame, heap >>

NextArgs ==
    \/ \E i \in ListIndexes, r \in ListIndexes : CallSplice(i, r)
    \/ \E i \in ListIndexes \cup { -1 } : CallGet(i)
    \/ \E v \in ListTokens : CallIndexOf(v)
    \/ \E v \in ListTokens : CallContains(v)

SpecArgs == InitArgs /\ [][NextArgs]_vars

----------------------------------------------------------------------------
(* The concurrent specification: up to MaxGoroutines calls of              *)
(* messageHandler run at the same time, each in its goroutine.  Of a call  *)
(* it keeps what is allocated: the context (220-225), the object map       *)
(* (302-303), and what the middlewares and the command store in it and     *)
(* load from it.  The steps between (229-300) either return or go on.      *)

Goroutines == 1 .. MaxGoroutines

ObjectKeys == { ObjectMapKeyHandler, "key" }

\* The handler is built (objectMap: &sync.Map{}, line 138) and attached.
InitRun ==
    /\ config = None
    /\ cmdMap = EmptyMap
    /\ cmdInstances = << >>
    /\ middlewares = << >>
    /\ panicked = FALSE
    /\ attached = { "MessageCreate" }
    /\ Idle
    /\ NoLists
    /\ running = [g \in Goroutines |-> NoFrame]
    /\ contexts = << >>
    /\ objectMaps = << << >> >>

runFrame ==
    << config, cmdMap, cmdInstances, middlewares, panicked, attached,
       dispatchVars, listVars >>

\* Lines 207-225: the call passed the filters and built its context.
RunStart(g) ==
    /\ running[g].pc = "idle"
    /\ Len(contexts) < MaxContexts
    /\ LET n == NewContext(contexts)
       IN  /\ contexts' = n.contexts
           /\ running' = [running EXCEPT ![g] =
                             [pc |-> "steps", ctx |-> n.ref, got |-> NoValue]]
    /\ UNCHANGED << runFrame, objectMaps >>

\* One of the returns of lines 229-300.
RunReturnEarly(g) ==
    /\ running[g].pc = "steps"
    /\ running' = [running EXCEPT ![g] = NoFrame]
    /\ UNCHANGED << runFrame, contexts, objectMaps >>

\* Lines 302-303.
RunObjectMap(g) ==
    /\ running[g].pc = "steps"
    /\ LET n == NewObjectMap(objectMaps)
           c == running[g].ctx
       IN  /\ contexts' = [contexts EXCEPT ![c].objectMap = n.ref]
           /\ objectMaps' =
                  [n.objectMaps EXCEPT ![n.ref] =
                      Store(@, ObjectMapKeyHandler, Value(0))]
    /\ running' = [running EXCEPT ![g].pc = "run"]
    /\ UNCHANGED runFrame

\* A middleware or the command of the dispatch calls ctx.SetObject.
RunSetObject(g, key) ==
    /\ running[g].pc = "run"
    /\ LET c == running[g].ctx
       IN  objectMaps' =
               [objectMaps EXCEPT ![contexts[c].objectMap] =
                   Store(@, key, Value(c))]
    /\ UNCHANGED << runFrame, running, contexts >>

\* A middleware or the command of the dispatch calls ctx.GetObject.
RunGetObject(g, key) ==
    /\ running[g].pc = "run"
    /\ LET c == running[g].ctx
       IN  running' =
               [running EXCEPT ![g].got =
                   Load(objectMaps[contexts[c].objectMap], key)]
    /\ UNCHANGED << runFrame, contexts, objectMaps >>

\* Lines 305-324: the call returns.
RunReturn(g) ==
    /\ running[g].pc = "run"
    /\ running' = [running EXCEPT ![g] = NoFrame]
    /\ UNCHANGED << runFrame, contexts, objectMaps >>

NextRun ==
    \/ \E g \in Goroutines : RunStart(g)
    \/ \E g \in Goroutines : RunReturnEarly(g)
    \/ \E g \in Goroutines : RunObjectMap(g)
    \/ \E g \in Goroutines, key \in ObjectKeys : RunSetObject(g, key)
    \/ \E g \in Goroutines, key \in ObjectKeys : RunGetObject(g, key)
    \/ \E g \in Goroutines : RunReturn(g)

SpecRun == InitRun /\ [][NextRun]_vars

----------------------------------------------------------------------------
(* Properties of the middleware pipeline (specification Spec).             *)

IsHandle(i) == calls[i].op = "Handle"

\* The layer masks subscribed to each layer, written out.
SubscribesBefore(mask) == mask \in { 1, 3 }
SubscribesAfter(mask) == mask \in { 2, 3 }

\* C1: once a middleware of the before layer has returned (false, nil), that
\* call is the last one of the dispatch (no later middleware, no Exec, no
\* middleware of the after layer, no ChannelMessageDelete), OnError was not
\* called, and the dispatch has ended.
C1_SilentStop ==
    \A i \in DOMAIN calls :
        ( /\ IsHandle(i)
          /\ calls[i].layer = LayerBeforeCommand
          /\ ~calls[i].next
          /\ ~calls[i].err )
        => /\ i = Len(calls)
           /\ reports = << >>
           /\ pc = "done"

\* A dispatch stopped by the first of two before-layer middlewares, with
\* deletion enabled.
C1_Witness ==
    /\ pc = "done"
    /\ Len(calls) > 0
    /\ IsHandle(Len(calls))
    /\ calls[Len(calls)].idx = 1
    /\ calls[Len(calls)].layer = LayerBeforeCommand
    /\ ~calls[Len(calls)].next /\ ~calls[Len(calls)].err
    /\ Len(middlewares) = 2
    /\ SubscribesBefore(middlewares[2]) /\ SubscribesAfter(middlewares[2])
    /\ config.DeleteMessageAfter

\* C2: once a middleware has returned an error, with either continue flag,
\* OnError was called exactly once, with ErrTypMiddleware; that call of
\* Handle is the last call of the dispatch, the dispatch has ended, and when
\* the layer was the before layer the command was not executed.
C2_MiddlewareError ==
    \A i \in DOMAIN calls :
        (IsHandle(i) /\ calls[i].err)
        => /\ reports = << "ErrTypMiddleware" >>
           /\ i = Len(calls)
           /\ pc = "done"
           /\ calls[i].layer = LayerBeforeCommand
                  => \A k \in DOMAIN calls : calls[k].op # "Exec"

\* The first of two before-layer middlewares returned (false, error).
C2_Witness ==
    /\ pc = "done"
    /\ Len(calls) > 0
    /\ IsHandle(Len(calls))
    /\ calls[Len(calls)].idx = 1
    /\ calls[Len(calls)].layer = LayerBeforeCommand
    /\ ~calls[Len(calls)].next /\ calls[Len(calls)].err
    /\ Len(middlewares) = 2
    /\ SubscribesBefore(middlewares[2])

\* The calls of Handle a layer makes when every middleware continues: the
\* middlewares subscribed to it, in registration order.
RECURSIVE LayerCalls(_, _, _)
LayerCalls(mws, i, l) ==
    IF i > Len(mws) THEN << >>
    ELSE (IF (l = LayerBeforeCommand /\ SubscribesBefore(mws[i]))
             \/ (l = LayerAfterCommand /\ SubscribesAfter(mws[i]))
          THEN << Call("Handle", i, l, TRUE, FALSE) >>
          ELSE << >>) \o LayerCalls(mws, i + 1, l)

IsPipelineCall(c) == c.op \in { "Handle", "Exec" }

\* The dispatch ran to its end: no step failed and no middleware that was
\* called refused to continue.
Completed ==
    /\ pc = "done"
    /\ ctx.objectMap # {}
    /\ \A i \in DOMAIN calls : ~calls[i].err /\ calls[i].next

\* C3: in a dispatch that ran to its end, the calls of Handle and Exec are
\* exactly: the middlewares subscribed to the before layer, once each, in
\* registration order, with the before layer; Exec once; the middlewares
\* subscribed to the after layer, once each, in registration order, with
\* the after layer.
C3_PipelineOrder ==
    Completed
    => SelectSeq(calls, IsPipelineCall)
         = LayerCalls(middlewares, 1, LayerBeforeCommand)
             \o << Plain("Exec", FALSE) >>
             \o LayerCalls(middlewares, 1, LayerAfterCommand)

\* A completed dispatch through a middleware of both layers and one of the
\* after layer alone.
C3_Witness ==
    /\ Completed
    /\ middlewares = << 3, 2 >>

\* C4: OnError is called at most once per dispatch; when the dispatch has
\* ended, it was called exactly once if a step failed and not at all
\* otherwise (the message was filtered, no prefix matched, direct messages
\* are disabled, a middleware returned (false, nil), or all steps succeeded).
C4_OneReport ==
    /\ Len(reports) <= 1
    /\ pc = "done"
           => (Len(reports) = 1 <=> \E i \in DOMAIN calls : calls[i].err)

\* The command returned an error, with an after-layer middleware registered
\* and deletion enabled.
C4_Witness ==
    /\ pc = "done"
    /\ reports = << "ErrTypCommandExec" >>
    /\ \E j \in DOMAIN middlewares : SubscribesAfter(middlewares[j])
    /\ config.DeleteMessageAfter

----------------------------------------------------------------------------
(* Properties of prefix resolution (specification SpecParse).              *)

StartsWith(s, p) == \E n \in 0..Len(s) : SubSeq(s, 1, n) = p

GetterCalled == \E i \in DOMAIN calls : calls[i].op = "GuildPrefixGetter"

GetterFailed ==
    \E i \in DOMAIN calls : calls[i].op = "GuildPrefixGetter" /\ calls[i].err

\* C5: after prefix resolution, a message that starts with the global
\* prefix has the global prefix as its used prefix and GuildPrefixGetter was
\* not called; for a message that does not start with the global prefix,
\* the used prefix is the guild prefix exactly when the getter returned a
\* non-empty prefix without error and the text starts with it, and is empty
\* otherwise.
C5_GlobalPrefixFirst ==
    pc # "parse:prefix"
    => /\ StartsWith(msg.content, config.GeneralPrefix)
              => usedPrefix = config.GeneralPrefix /\ ~GetterCalled
       /\ ~StartsWith(msg.content, config.GeneralPrefix)
              => /\ GetterCalled
                 /\ IF ~GetterFailed /\ guildPrefix # << >>
                       /\ StartsWith(msg.content, guildPrefix)
                    THEN usedPrefix = guildPrefix
                    ELSE usedPrefix = << >>

\* A message that starts with the global prefix "!" and with "!a", which
\* the prefix provider may return.
C5_Witness ==
    /\ pc = "parse:tokenize"
    /\ config.GeneralPrefix = <<"!">>
    /\ usedPrefix = <<"!">>
    /\ StartsWith(msg.content, <<"!", "a">>)

----------------------------------------------------------------------------
(* Properties of the registry (specification Spec).                        *)

Lowered(name) ==
    [i \in DOMAIN name |->
        IF name[i] = "A" THEN "a" ELSE IF name[i] = "B" THEN "b" ELSE name[i]]

\* The keys the i-th registered command offers.
OfferedKeys(i) ==
    LET c == CHOOSE x \in Commands : x.id = cmdInstances[i]
    IN  { IF config.InvokeToLower THEN Lowered(c.invokes[n]) ELSE c.invokes[n] :
            n \in DOMAIN c.invokes }

FirstOffering(k) ==
    cmdInstances[CHOOSE i \in DOMAIN cmdInstances :
                     /\ k \in OfferedKeys(i)
                     /\ \A j \in 1..(i - 1) : k \notin OfferedKeys(j)]

Conflict ==
    \E i, j \in DOMAIN cmdInstances :
        i < j /\ OfferedKeys(i) \cap OfferedKeys(j) # {}

\* C6: every key of the registry maps to the first command that registered
\* it, and RegisterCommand has panicked exactly when a command offered a key
\* that an earlier command had registered.
C6_FirstRegistrationWins ==
    /\ \A k \in DOMAIN cmdMap :
           /\ \E i \in DOMAIN cmdInstances : k \in OfferedKeys(i)
           /\ cmdMap[k] = FirstOffering(k)
    /\ pc # "fault" => (panicked <=> Conflict)

\* With case folding, c2 offered "B" after c1 had registered "b": the
\* panic left "b" with c1 (and "c", registered before it, with c2).
C6_Witness ==
    /\ config.InvokeToLower
    /\ cmdInstances = << "c1", "c2" >>
    /\ panicked
    /\ cmdMap[<<"b">>] = "c1"
    /\ cmdMap[<<"c">>] = "c2"
    /\ <<"d">> \notin DOMAIN cmdMap

Letters == { "a", "A", "b", "B", "c", "d" }

LookupNames == Str(1, Letters)

\* The commands whose RegisterCommand call returned.
Registered ==
    { cmdInstances[i] : i \in { j \in DOMAIN cmdInstances :
                                  ~(panicked /\ j = Len(cmdInstances)) } }

\* C7: GetCommand returns a registered command for each of its invokes, and
\* with case folding for every case variant of them; it returns not-found
\* for a name that, folded the same way, no command registered; without case
\* folding, a name that differs from the registered names, if only in case,
\* is not found.
C7_LookupFolding ==
    ~panicked
    => \A name \in LookupNames :
         LET got == GetCommand(cmdMap, config.InvokeToLower, name)
             owners ==
                 { id \in Registered :
                     \E n \in DOMAIN CommandOf(id).invokes :
                         IF config.InvokeToLower
                         THEN Lowered(CommandOf(id).invokes[n]) = Lowered(name)
                         ELSE CommandOf(id).invokes[n] = name }
         IN  IF owners = {} THEN got = None ELSE got \in owners

\* With case folding, c2 registered "B" and is found under "b" and "B".
C7_Witness ==
    /\ ~panicked
    /\ config.InvokeToLower
    /\ cmdInstances = << "c2" >>
    /\ GetCommand(cmdMap, config.InvokeToLower, <<"b">>) = "c2"
    /\ GetCommand(cmdMap, config.InvokeToLower, <<"B">>) = "c2"
    /\ GetCommand(cmdMap, config.InvokeToLower, <<"a">>) = None

----------------------------------------------------------------------------
(* Properties of tokenization and invocation extraction (specification     *)
(* SpecParse).                                                             *)
(*                                                                         *)
(* The tokens are described from the text alone.  The double-quotes of a   *)
(* text pair off from the left: the first with the second, the third with  *)
(* the fourth; a last quote without a partner is unpaired.                 *)

Quotes(s) == { k \in DOMAIN s : s[k] = "\"" }

QuotesBefore(s, p) == Cardinality({ k \in Quotes(s) : k < p })

\* The quote at p has a partner.
PairedQuote(s, p) ==
    QuotesBefore(s, p) % 2 = 1 \/ QuotesBefore(s, p) + 1 < Cardinality(Quotes(s))

\* The character at p, not a quote, stands between a quote and its partner.
InsidePair(s, p) ==
    QuotesBefore(s, p) % 2 = 1 /\ QuotesBefore(s, p) < Cardinality(Quotes(s))

\* What separates tokens: whitespace outside the quote pairs, and an
\* unpaired quote.
Separator(s, p) ==
    IF s[p] = "\"" THEN ~PairedQuote(s, p)
    ELSE s[p] = " " /\ ~InsidePair(s, p)

WithoutQuotes(t) ==
    LET keep == { k \in DOMAIN t : t[k] # "\"" }
    IN  [n \in 1..Cardinality(keep) |->
            t[CHOOSE k \in keep : Cardinality({ x \in keep : x < k }) = n - 1]]

\* The n-th element of a set of positions, from the left.
Nth(S, n) == CHOOSE b \in S : Cardinality({ x \in S : x < b }) = n - 1

\* The maximal runs of characters that are not separators, each without
\* its quotes.
GroupTokens(s) ==
    LET starts == { p \in DOMAIN s :
                      ~Separator(s, p) /\ (p = 1 \/ Separator(s, p - 1)) }
        EndOf(b) == CHOOSE e \in b..Len(s) :
                        /\ \A q \in b..e : ~Separator(s, q)
                        /\ e = Len(s) \/ Separator(s, e + 1)
    IN  [n \in 1..Cardinality(starts) |->
            WithoutQuotes(SubSeq(s, Nth(starts, n), EndOf(Nth(starts, n))))]

\* The grammar units taken one by one: a quote pair with what it encloses,
\* emitted without the two quotes, or a maximal run of plain characters
\* outside the pairs, emitted unchanged.
PlainOutside(s, p) == s[p] # "\"" /\ s[p] # " " /\ ~InsidePair(s, p)

OpeningQuote(s, p) ==
    s[p] = "\"" /\ QuotesBefore(s, p) % 2 = 0 /\ PairedQuote(s, p)

UnitTokens(s) ==
    LET starts == { p \in DOMAIN s :
                      \/ OpeningQuote(s, p)
                      \/ PlainOutside(s, p)
                           /\ (p = 1 \/ ~PlainOutside(s, p - 1)) }
        UnitAt(b) ==
            IF OpeningQuote(s, b)
            THEN SubSeq(s, b + 1,
                        (CHOOSE e \in (b + 1)..Len(s) :
                             s[e] = "\"" /\ \A q \in (b + 1)..(e - 1) : s[q] # "\"")
                          - 1)
            ELSE SubSeq(s, b,
                        CHOOSE e \in b..Len(s) :
                            /\ \A q \in b..e : PlainOutside(s, q)
                            /\ e = Len(s) \/ ~PlainOutside(s, e + 1))
    IN  [n \in 1..Cardinality(starts) |-> UnitAt(Nth(starts, n))]

NoQuoteIn(toks) ==
    \A n \in DOMAIN toks : \A k \in DOMAIN toks[n] : toks[n][k] # "\""

\* C10 as stated: the tokenizer emits one token per grammar unit, in order,
\* plain runs unchanged and quoted runs without their bounding quotes, and
\* no token contains a double-quote.
C10_OneTokenPerUnit ==
    pc = "parse:extract"
    => args = UnitTokens(msg.content) /\ NoQuoteIn(args)

\* C10 as amended: the tokenizer emits, left to right, one token per maximal
\* group of adjacent grammar units (units with neither whitespace nor an
\* unpaired quote between them), each token being the characters of its
\* group without any double-quote; no token contains a double-quote.
C10_OneTokenPerGroup ==
    pc = "parse:extract"
    => args = GroupTokens(msg.content) /\ NoQuoteIn(args)

\* A plain run next to a quoted run with whitespace inside: one token.
C10_Witness ==
    /\ pc = "parse:extract"
    /\ msg.content = <<"a", "\"", "a", " ", "\"">>
    /\ args = << <<"a", "a", " ">> >>

PastExtraction ==
    \/ pc \in { "parse:lookup", "parse:fault" }
    \/ pc = "parse:done" /\ \E i \in DOMAIN calls : calls[i].op = "GetCommand"

RegistryEntry(name) == IF name \in DOMAIN cmdMap THEN cmdMap[name] ELSE None

\* C8: in attached mode, for every message that passed prefix resolution
\* the invocation is the first token without its first len(usedPrefix)
\* characters, the arguments are the tokens from the second on, and the
\* invocation, empty or not, is what the registry is asked for.
C8_AttachedExtraction ==
    (~config.SpaceAfterPrefix /\ PastExtraction)
    => LET toks == GroupTokens(msg.content)
       IN  /\ ~panicked
           /\ Len(toks) >= 1
           /\ Len(toks[1]) >= Len(usedPrefix)
           /\ invoke = SubSeq(toks[1], Len(usedPrefix) + 1, Len(toks[1]))
           /\ args = SubSeq(toks, 2, Len(toks))
           /\ pc = "parse:done" => cmd = RegistryEntry(invoke)

\* C9: in space-after-prefix mode, for every message that passed prefix
\* resolution the invocation is the second token, or empty when there is
\* none, and the arguments are the tokens after the second, or after the
\* first when there is no second.
C9_SpaceExtraction ==
    (config.SpaceAfterPrefix /\ PastExtraction)
    => LET toks == GroupTokens(msg.content)
       IN  /\ ~panicked
           /\ invoke = IF Len(toks) >= 2 THEN toks[2] ELSE << >>
           /\ args = IF Len(toks) >= 2 THEN SubSeq(toks, 3, Len(toks))
                     ELSE SubSeq(toks, 2, Len(toks))
           /\ pc = "parse:done" => cmd = RegistryEntry(invoke)

----------------------------------------------------------------------------
(* Properties of ArgumentList (specification SpecArgs).                    *)

\* What remains of the elements vs when r of them are cut out at i.
Remaining(vs, i, r) ==
    IF i >= Len(vs) THEN vs
    ELSE IF i + r >= Len(vs) THEN SubSeq(vs, 1, i)
    ELSE SubSeq(vs, 1, i) \o SubSeq(vs, i + r + 1, Len(vs))

\* C11: for a start and a count that are not negative, Splice returns the
\* list itself when the start is at or behind its end, the elements before
\* the start when start + count reaches its end, and otherwise the
\* elements before the start followed by those from start + count on.
C11_SpliceResult ==
    last.op = "Splice" =>
        /\ last.i >= 0 /\ last.r >= 0
        /\ last.out = Remaining(last.before, last.i, last.r)

\* A Splice of the third case: elements remain on both sides of the cut.
C11_Witness ==
    /\ last.op = "Splice"
    /\ last.r > 0 /\ last.i > 0
    /\ last.i + last.r < Len(last.before)
    /\ Len(last.out) = Len(last.before) - last.r
    /\ last.out[last.i + 1] = last.before[last.i + last.r + 1]

\* C12: an ArgumentList is immutable after construction: after any
\* sequence of Splice, Get, IndexOf and Contains calls on it, every element
\* read through the list is the element it was constructed with.
C12_Immutable == Elements(heap, list) = made

----------------------------------------------------------------------------
(* Properties of the dispatch (specification Spec).                        *)

\* The dispatch called the collaborator operation op.
Called(op) == \E i \in 1 .. Len(calls) : calls[i].op = op

\* C13: a command is executed for a message in a DM or group-DM channel
\* only if direct messages are enabled and the command is DM-executable.
\* With direct messages disabled such a dispatch stops silently: nothing
\* is reported, no guild is resolved and the registry is not consulted.
\* With them enabled and a command that is not DM-executable,
\* NotExecutableInDM is reported and neither a middleware nor the command
\* runs.
C13_DirectMessages ==
    ctx.isDM =>
        /\ Called("Exec") => config.AllowDM /\ CommandOf(cmd).dm
        /\ ~config.AllowDM =>
               /\ pc = "done" /\ reports = << >>
               /\ ~Called("Guild") /\ ~Called("GetCommand")
        /\ config.AllowDM /\ cmd # None /\ ~CommandOf(cmd).dm =>
               /\ pc = "done" /\ reports = << "ErrTypNotExecutableInDM" >>
               /\ ~Called("Handle") /\ ~Called("Exec")

\* A command that is not DM-executable was invoked in a DM channel.
C13_Witness ==
    /\ ctx.isDM /\ config.AllowDM /\ middlewares # << >>
    /\ cmd # None /\ ~CommandOf(cmd).dm
    /\ reports = << "ErrTypNotExecutableInDM" >>

\* The positions of the calls of op in the dispatch's calls.
CallsOf(op) == { i \in 1 .. Len(calls) : calls[i].op = op }

\* The number of reports of the kind.
Reported(kind) ==
    Cardinality({ i \in 1 .. Len(reports) : reports[i] = kind })

\* C14: the command is executed at most once per dispatch; when it
\* returns an error, CommandExec is reported exactly once, and no
\* after-execution middleware and no deletion of the message follows.
\* Without that error CommandExec is not reported.
C14_ExecOnce ==
    /\ Cardinality(CallsOf("Exec")) <= 1
    /\ \A i \in CallsOf("Exec") :
           IF calls[i].err
           THEN /\ Reported("ErrTypCommandExec") = 1
                /\ i = Len(calls)
                /\ pc = "done"
           ELSE Reported("ErrTypCommandExec") = 0
    /\ CallsOf("Exec") = {} => Reported("ErrTypCommandExec") = 0

\* The command failed while a middleware of the after layer is registered
\* and the deletion is enabled.
C14_Witness ==
    /\ \E i \in CallsOf("Exec") : calls[i].err
    /\ \E j \in 1 .. Len(middlewares) : SubscribesAfter(middlewares[j])
    /\ config.DeleteMessageAfter
    /\ reports = << "ErrTypCommandExec" >>

\* The command was executed and returned no error.
ExecutedOk == \E i \in CallsOf("Exec") : ~calls[i].err

\* No middleware of the after layer stopped the dispatch or failed.
AfterLayerPassed ==
    \A i \in CallsOf("Handle") :
        calls[i].layer = LayerAfterCommand => calls[i].next /\ ~calls[i].err

\* One deletion attempt, the last call of the dispatch, reported as
\* DeleteCommandMessage exactly when it failed.
DeletionMade ==
    /\ Cardinality(CallsOf("ChannelMessageDelete")) = 1
    /\ \A d \in CallsOf("ChannelMessageDelete") :
           /\ d = Len(calls)
           /\ Reported("ErrTypDeleteCommandMessage") =
                  IF calls[d].err THEN 1 ELSE 0

NoDeletion ==
    /\ CallsOf("ChannelMessageDelete") = {}
    /\ Reported("ErrTypDeleteCommandMessage") = 0

\* C15 as stated: with delete-after-execution enabled, every finished
\* dispatch in which the command executed successfully made one deletion
\* attempt, after the after layer, and reported its failure as
\* DeleteCommandMessage; with the option disabled, or without a successful
\* execution, no deletion is attempted.
C15_DeleteAfterExec ==
    /\ pc = "done" /\ config.DeleteMessageAfter /\ ExecutedOk => DeletionMade
    /\ ~config.DeleteMessageAfter \/ ~ExecutedOk => NoDeletion

\* C15, amended: the deletion is attempted in the finished dispatches in
\* which the command executed successfully and every middleware of the
\* after layer let the dispatch continue; with the option disabled,
\* without a successful execution, or after a stop or an error of a
\* middleware of the after layer, no deletion is attempted.
C15_DeleteAfterLayer ==
    /\ pc = "done" /\ config.DeleteMessageAfter /\ ExecutedOk
           /\ AfterLayerPassed => DeletionMade
    /\ ~config.DeleteMessageAfter \/ ~ExecutedOk \/ ~AfterLayerPassed
           => NoDeletion

\* A deletion that failed, made after a middleware of the after layer ran.
C15_Witness ==
    /\ pc = "done" /\ config.DeleteMessageAfter /\ ExecutedOk
    /\ \E i \in CallsOf("Handle") : calls[i].layer = LayerAfterCommand
    /\ \E d \in CallsOf("ChannelMessageDelete") : calls[d].err
    /\ reports = << "ErrTypDeleteCommandMessage" >>

\* The place of a call in the order of the steps of a dispatch (the DM
\* check, 3, and the tokenization, 5, call no collaborator).
StepOf(c) ==
    CASE c.op = "GuildPrefixGetter" -> 1
      [] c.op = "Channel" -> 2
      [] c.op = "Guild" -> 4
      [] c.op = "GetCommand" -> 6
      [] c.op = "IsExecutableInDMChannels" -> 7
      [] c.op = "Handle" /\ c.layer = LayerBeforeCommand -> 8
      [] c.op = "Exec" -> 9
      [] c.op = "Handle" /\ c.layer = LayerAfterCommand -> 10
      [] c.op = "ChannelMessageDelete" -> 11

\* The kind reported when the step of the call fails.
KindOf(c) ==
    CASE c.op = "GuildPrefixGetter" -> "ErrTypGuildPrefixGetter"
      [] c.op = "Channel" -> "ErrTypGetChannel"
      [] c.op = "Guild" -> "ErrTypGetGuild"
      [] c.op = "GetCommand" -> "ErrTypCommandNotFound"
      [] c.op = "IsExecutableInDMChannels" -> "ErrTypNotExecutableInDM"
      [] c.op = "Handle" -> "ErrTypMiddleware"
      [] c.op = "Exec" -> "ErrTypCommandExec"
      [] c.op = "ChannelMessageDelete" -> "ErrTypDeleteCommandMessage"

\* The step of the call failed; it stopped the dispatch without failing.
StepFailed(c) == c.err

StepStopped(c) == c.op = "Handle" /\ ~c.next /\ ~c.err

\* The tokenization and the extraction have been done.
Tokenized == pc \in { "lookup", "middlewares", "exec", "delete" }
                 \/ Called("GetCommand")

\* C16: the steps of a dispatch run in the order prefix resolution, channel
\* resolution, DM check, guild resolution, tokenization, registry lookup,
\* DM-executability check, before layer, execution, after layer, deletion;
\* what is reported is the kind of the first step that failed, and once a
\* step has failed or stopped the dispatch no later step is performed.
C16_StepOrder ==
    /\ \A i \in 1 .. Len(calls), j \in 1 .. Len(calls) :
           i < j =>
               \/ StepOf(calls[i]) < StepOf(calls[j])
               \/ /\ StepOf(calls[i]) = StepOf(calls[j])
                  /\ IsHandle(i) /\ calls[i].idx < calls[j].idx
    /\ \A i \in 1 .. Len(calls) :
           /\ StepFailed(calls[i]) =>
                  /\ i = Len(calls) /\ pc = "done"
                  /\ reports = << KindOf(calls[i]) >>
           /\ StepStopped(calls[i]) =>
                  i = Len(calls) /\ pc = "done" /\ reports = << >>
    /\ reports # << >> => calls # << >> /\ StepFailed(calls[Len(calls)])
    /\ pc \in { "channel", "guild", "parse" } \/ Tokenized =>
           usedPrefix # << >>
    /\ Called("Guild") => Called("Channel") /\ ~ctx.isDM
    /\ StopsForDM(config.AllowDM, ctx.isDM) =>
           pc = "done" /\ calls[Len(calls)].op = "Channel"
    /\ Tokenized =>
           /\ Called("Channel")
           /\ ~ctx.isDM => Called("Guild")
           /\ ~Called("GetCommand") => pc = "lookup"
    /\ Called("Handle") \/ Called("Exec") =>
           /\ Called("GetCommand")
           /\ ctx.isDM => Called("IsExecutableInDMChannels")
    /\ Called("Exec") => pc # "middlewares" \/ layer = LayerAfterCommand
    /\ pc = "delete" \/ Called("ChannelMessageDelete") => ExecutedOk

\* A dispatch that called every collaborator of the order but the
\* DM-executability check, and failed at the last step.
C16_Witness ==
    /\ Called("GuildPrefixGetter") /\ Called("Channel") /\ Called("Guild")
    /\ Called("GetCommand") /\ Called("Exec")
    /\ \E i \in CallsOf("Handle") : calls[i].layer = LayerBeforeCommand
    /\ \E i \in CallsOf("Handle") : calls[i].layer = LayerAfterCommand
    /\ reports = << "ErrTypDeleteCommandMessage" >>

\* The running dispatch has built its context.
HasContext ==
    pc \in { "prefix", "channel", "guild", "parse", "lookup", "middlewares",
             "exec", "delete" }

\* C19: the is-edit flag of the context of a dispatch is true exactly when
\* a message-edit event triggered the dispatch and false exactly when a
\* message-creation event did; the handler of the edit event is attached
\* only when execute-on-edit is enabled.
C19_IsEditFlag ==
    /\ HasContext => (ctx.isEdit <=> event = "MessageUpdate")
    /\ "MessageUpdate" \in attached => config.ExecuteOnEdit

----------------------------------------------------------------------------
(* Properties of the registration (specification SpecOpen).                *)

\* C17: the command registry and the middleware list are mutated only
\* during setup: no step changes them once a handler is attached or while
\* a dispatch is in progress.
C17_SetupOnly ==
    [][ \/ cmdMap' # cmdMap
        \/ cmdInstances' # cmdInstances
        \/ middlewares' # middlewares
        => attached = {} /\ pc = "idle" ]_vars

----------------------------------------------------------------------------
(* Properties of concurrent dispatches (specification SpecRun).            *)

\* The contexts that were given an object map.
WithMap == { c \in 1 .. Len(contexts) : contexts[c].objectMap # 0 }

\* The values a dispatch with context c may find under the key: what it
\* stored itself and, under the handler key, the handler.
OwnValues(c, key) ==
    { Value(c) } \cup
        (IF key = ObjectMapKeyHandler THEN { Value(0) } ELSE {})

\* C18: under any interleaving of concurrent dispatches, every dispatch
\* has a context of its own and every context an object map of its own
\* (not the handler's either), which holds the handler under the handler
\* key or what its own dispatch stored, and nothing else; what a dispatch
\* loads through its context is never a value another dispatch stored.
C18_OwnContext ==
    /\ \A g, k \in Goroutines :
           g # k /\ running[g].ctx # 0 => running[g].ctx # running[k].ctx
    /\ \A c \in WithMap :
           /\ contexts[c].objectMap # 1
           /\ \A d \in WithMap :
                  c # d => contexts[c].objectMap # contexts[d].objectMap
           /\ LET m == objectMaps[contexts[c].objectMap]
              IN  /\ ObjectMapKeyHandler \in DOMAIN m
                  /\ \A key \in DOMAIN m : m[key] \in OwnValues(c, key)
    /\ \A g \in Goroutines :
           running[g].got # NoValue =>
               \E key \in ObjectKeys :
                   running[g].got \in OwnValues(running[g].ctx, key)

\* Two dispatches run at the same time, both have stored a value under
\* the same key, and one has loaded what it stored.
C18_Witness ==
    \E g, k \in Goroutines :
        /\ g # k /\ running[g].pc = "run" /\ running[k].pc = "run"
        /\ Load(objectMaps[contexts[running[g].ctx].objectMap], "key")
               = Value(running[g].ctx)
        /\ Load(objectMaps[contexts[running[k].ctx].objectMap], "key")
               = Value(running[k].ctx)
        /\ running[g].got = Value(running[g].ctx)

----------------------------------------------------------------------------
(* Properties of the invocation extraction (specification SpecParse).      *)

\* C20: the invocation extraction never faults: for every message text of
\* two characters or more that passed the prefix resolution, under every
\* prefix and in either mode, the tokenization yields at least one token,
\* the first token is at least as long as the used prefix, and the
\* dispatch does not end in an index out of range.
C20_NoFault ==
    /\ pc = "parse:extract" =>
           /\ Len(args) >= 1
           /\ Len(args[1]) >= Len(usedPrefix)
    /\ pc # "parse:fault"
    /\ ~panicked

====
